---------------------------- MODULE Spec2Model ----------------------------
(***************************************************************************)
(* A model of the ATLAS batch-distribution programs: the manager           *)
(* (src/src/manager/higgs_manager.py), the workers                         *)
(* (src/src/worker/higgs_worker.py), their shared helpers                  *)
(* (src/src/common/comms.py) and the RabbitMQ queues between them.         *)
(*                                                                         *)
(* Time is the manager's own clock, in units of seconds: only              *)
(* time.sleep() advances it, a poll of the broker costs no time.  The      *)
(* workers run at any speed relative to it.                                *)
(***************************************************************************)
EXTENDS Integers, Sequences, FiniteSets

(***************************************************************************)
(* Bounds of the model.                                                    *)
(***************************************************************************)
\* config.BATCH_SIZE is 100000; the model runs the manager with this size.
BATCH_SIZE == 50
\* main() passes terminate_time=240 to retrieve_batches; scaled down.
TERMINATE_TIME == 1
\* main() of the worker passes retries=12 to retrieve_batch; scaled down.
RETRIES == 2
\* Failures (processing errors, failed acks, crashes) injected in one run.
MaxFaults == 1
\* Inputs of the partitioner taken alone: source size, batch size.
MaxT == 6
MaxB == 3
\* Inputs of the collector taken alone: expected count, poll interval,
\* deadline.
MaxK == 3
MaxWait == 2
MaxDeadline == 4
\* Inputs of the reconciler taken alone: distinct ids, length of a list.
MaxIds == 3
MaxListLen == 2
\* send_data taken alone: calls with the same list after the first one.
MaxResends == 1
MaxGroupLen == 3
MaxRetries == 5

(***************************************************************************)
(* Program constants.                                                      *)
(***************************************************************************)
\* wait_time=1 in main()'s call of retrieve_batches.
WAIT_TIME == 1
\* The population below which main() warns about a sample.
MIN_EVENTS == 50
\* config.FRACTION = 1.0, as the rational <<1, 1>>.
FRACTION == <<1, 1>>

\* config.SAMPLES, cut to two samples and three subsamples; the order is the
\* dict's insertion order.
SAMPLES ==
    << [name |-> "data",   list |-> <<"data_A", "data_B">>],
       [name |-> "Signal", list |-> <<"ggH125_ZZ4lep">>] >>

SampleNames == { SAMPLES[i].name : i \in 1..Len(SAMPLES) }

Subsamples == UNION { { SAMPLES[i].list[j] : j \in 1..Len(SAMPLES[i].list) }
                      : i \in 1..Len(SAMPLES) }

\* The sampling fractions tried by the partitioner taken alone: p/q in (0, 1].
Fractions == { <<1, 1>>, <<1, 2>>, <<1, 3>>, <<2, 3>>, <<1, 4>>, <<3, 4>> }

(***************************************************************************)
(* Values.                                                                 *)
(***************************************************************************)
\* Python's None for DataBatch.processed_data.  An awkward array is the
\* sequence of its chunks [src, n]: n events that came from batch src.
None == << >>

Min(a, b) == IF a < b THEN a ELSE b

RECURSIVE SumN(_)
SumN(arr) == IF arr = << >> THEN 0 ELSE Head(arr).n + SumN(Tail(arr))

\* len() of an awkward array.
ArrayLen(arr) == SumN(arr)

RECURSIVE Flatten(_)
Flatten(ss) == IF ss = << >> THEN << >> ELSE Head(ss) \o Flatten(Tail(ss))

DataBatchPrefilled(batch_id, sample, subsample, sample_type, path, fraction, start_index, stop_index) ==
    [ batch_id       |-> batch_id,
      sample         |-> sample,
      subsample      |-> subsample,
      sample_type    |-> sample_type,
      path           |-> path,
      fraction       |-> fraction,
      start_index    |-> start_index,
      stop_index     |-> stop_index,
      processed_data |-> << [ src |-> batch_id, n |-> 0 ] >> ]

\* DataBatch.__init__
DataBatch(batch_id, sample, subsample, sample_type, path, fraction, start_index, stop_index) ==
    [ batch_id       |-> batch_id,
      sample         |-> sample,
      subsample      |-> subsample,
      sample_type    |-> sample_type,
      path           |-> path,
      fraction       |-> fraction,
      start_index    |-> start_index,
      stop_index     |-> stop_index,
      processed_data |-> None ]

pickle_dumps_no_id(b) ==
    << b.start_index, b.sample, b.subsample, b.sample_type, b.path,
       b.fraction, b.start_index, b.stop_index, b.processed_data >>

\* pickle.dumps of a DataBatch: the attribute values, in attribute order.
pickle_dumps(b) ==
    << b.batch_id, b.sample, b.subsample, b.sample_type, b.path,
       b.fraction, b.start_index, b.stop_index, b.processed_data >>

pickle_loads_no_result(m) ==
    [ batch_id       |-> m[1],
      sample         |-> m[2],
      subsample      |-> m[3],
      sample_type    |-> m[4],
      path           |-> m[5],
      fraction       |-> m[6],
      start_index    |-> m[7],
      stop_index     |-> m[8],
      processed_data |-> None ]

\* pickle.loads of such a message: a new object with those attributes.
pickle_loads(m) ==
    [ batch_id       |-> m[1],
      sample         |-> m[2],
      subsample      |-> m[3],
      sample_type    |-> m[4],
      path           |-> m[5],
      fraction       |-> m[6],
      start_index    |-> m[7],
      stop_index     |-> m[8],
      processed_data |-> m[9] ]

BatchIds(bs) == { bs[i].batch_id : i \in 1..Len(bs) }

IdsOf(S) == { b.batch_id : b \in S }

(***************************************************************************)
(* data_batcher                                                            *)
(***************************************************************************)
RoundHalfUp(p, q) == (2 * p + q) \div (2 * q)

\* Python's round() of the rational p/q (p >= 0, q > 0): to the nearest
\* integer, a tie to the even one.
Round(p, q) ==
    LET fl == p \div q
        r  == p % q
    IN  IF 2 * r < q THEN fl
        ELSE IF 2 * r > q THEN fl + 1
        ELSE IF fl % 2 = 0 THEN fl ELSE fl + 1

\* num_events = min(data_num_events, round(data_num_events * fraction))
NumEvents(data_num_events, fraction) ==
    Min(data_num_events, Round(data_num_events * fraction[1], fraction[2]))

RECURSIVE StartIndicesInclusive(_, _, _)
StartIndicesInclusive(start, num_events, batch_size) ==
    IF start <= num_events
    THEN <<start>> \o StartIndicesInclusive(start + batch_size, num_events, batch_size)
    ELSE << >>

\* range(0, num_events, batch_size), from `start` on.
RECURSIVE StartIndices(_, _, _)
StartIndices(start, num_events, batch_size) ==
    IF start < num_events
    THEN <<start>> \o StartIndices(start + batch_size, num_events, batch_size)
    ELSE << >>

StopIndexUnclamped(start, batch_size, num_events) == start + batch_size

\* stop = min(start + batch_size, num_events)
StopIndex(start, batch_size, num_events) ==
    Min(start + batch_size, num_events)

SampleType(sample) == IF sample = "data" THEN "measured" ELSE "monte-carlo"

PathSubsample(sample, subsample) ==
    << IF sample = "data" THEN "Data/" ELSE "MC/mc_", subsample, ".4lep.root" >>

SubsampleBatchesLocalIds(sample, subsample, data_num_events, fraction, batch_size, used) ==
    LET num_events == NumEvents(data_num_events, fraction)
        starts     == StartIndices(0, num_events, batch_size)
    IN  [ k \in 1..Len(starts) |->
            LET stop == StopIndex(starts[k], batch_size, num_events)
            IN  DataBatch(k, sample, subsample, SampleType(sample),
                          PathSubsample(sample, subsample),
                          <<stop - starts[k], num_events>>, starts[k], stop) ]

\* The inner loop of data_batcher for one subsample: one DataBatch per start
\* index; ids are fresh, here the next unused numbers after `used`.
SubsampleBatches(sample, subsample, data_num_events, fraction, batch_size, used) ==
    LET num_events == NumEvents(data_num_events, fraction)
        starts     == StartIndices(0, num_events, batch_size)
    IN  [ k \in 1..Len(starts) |->
            LET stop == StopIndex(starts[k], batch_size, num_events)
            IN  DataBatch(used + k, sample, subsample, SampleType(sample),
                          PathSubsample(sample, subsample),
                          <<stop - starts[k], num_events>>, starts[k], stop) ]

\* The two outer loops of data_batcher, from sample i, subsample j on.
RECURSIVE BatcherFrom(_, _, _, _, _, _, _)
BatcherFrom(samples, i, j, nev, fraction, batch_size, acc) ==
    IF i > Len(samples) THEN acc
    ELSE IF j > Len(samples[i].list)
    THEN BatcherFrom(samples, i + 1, 1, nev, fraction, batch_size, acc)
    ELSE BatcherFrom(samples, i, j + 1, nev, fraction, batch_size,
             acc \o SubsampleBatches(samples[i].name, samples[i].list[j],
                                     nev[samples[i].list[j]], fraction,
                                     batch_size, Len(acc)))

\* data_batcher(samples, path, fraction, batch_size); nev[s] is the number of
\* entries that uproot reports for subsample s.
data_batcher(samples, nev, fraction, batch_size) ==
    BatcherFrom(samples, 1, 1, nev, fraction, batch_size, << >>)

(***************************************************************************)
(* missing_batches                                                         *)
(***************************************************************************)
MissingIdsUnfiltered(expected_batches, retrieved_batches) ==
    BatchIds(expected_batches)

\* missing_batch_ids = set(expected_batches_map.keys()) - retrieved_batch_ids
MissingIds(expected_batches, retrieved_batches) ==
    BatchIds(expected_batches) \ BatchIds(retrieved_batches)

\* expected_batches_map[batch_id]: a dict comprehension keeps the last batch
\* of each id.
ExpectedMap(expected_batches, batch_id) ==
    LET last == CHOOSE i \in 1..Len(expected_batches) :
                  /\ expected_batches[i].batch_id = batch_id
                  /\ \A j \in (i+1)..Len(expected_batches) :
                        expected_batches[j].batch_id # batch_id
    IN  expected_batches[last]

\* missing_batches: [isNone |-> TRUE] for None, else the missing batches.
\* The list is built by iterating a set, so its order is not fixed: it is
\* modelled as the set of its elements.
missing_batches(expected_batches, retrieved_batches) ==
    LET ids == MissingIds(expected_batches, retrieved_batches)
    IN  IF Cardinality(ids) = 0
        THEN [isNone |-> TRUE, list |-> {}]
        ELSE [isNone |-> FALSE,
              list |-> { ExpectedMap(expected_batches, id) : id \in ids }]

NoMissing == [isNone |-> TRUE, list |-> {}]

(***************************************************************************)
(* group_batches                                                           *)
(***************************************************************************)
SampleArraysNewestFirst(bs, sample) ==
    LET sel == SelectSeq(bs, LAMBDA b : b.sample = sample)
    IN  [ i \in 1..Len(sel) |-> sel[Len(sel) + 1 - i].processed_data ]

\* The processed_data of the batches of `sample`, in the order of `bs`.
RECURSIVE SampleArrays(_, _)
SampleArrays(bs, sample) ==
    IF bs = << >> THEN << >>
    ELSE IF Head(bs).sample = sample
         THEN <<Head(bs).processed_data>> \o SampleArrays(Tail(bs), sample)
         ELSE SampleArrays(Tail(bs), sample)

ak_concatenate_first(arrays) == IF arrays = << >> THEN << >> ELSE Head(arrays)

\* ak.concatenate of a non-empty list of arrays.
ak_concatenate(arrays) == Flatten(arrays)

(***************************************************************************)
(* State.                                                                  *)
(***************************************************************************)
VARIABLES
    \* Inputs of a run: the entries of each subsample's file, the events of
    \* a batch of it that pass process_data's cuts, and the attributes
    \* FRACTION and BATCH_SIZE of the config module.
    numEvents, validEvents, cfgFraction, cfgBatchSize,
    \* The manager: its position in main(), main()'s locals batches,
    \* processed_batches, missing_data_batches and samples_data, the samples
    \* it warned about, and the index of the next batch send_data publishes.
    mpc, batches, sendIdx, processed, missing, samples_data, warned,
    \* retrieve_batches: its parameters and its start time; the clock.
    numBatches, waitTime, terminateTime, startT, clock,
    \* The broker: the two queues and, per worker channel, the delivery that
    \* is not yet acknowledged.
    tasks, results, unacked,
    \* The workers: position in main(), the attempts counter of
    \* retrieve_batch, and the batch in hand.
    wpc, attempts, wbatch,
    \* History: failures injected so far; per batch id the results
    \* published, the basic_ack and the basic_nack calls; the ids nacked
    \* after a processing error; the ids whose delivery was requeued after
    \* its result was published; the clock at the last publish of the
    \* collector's environment; the calls of send_data made for the manager's
    \* list after the first one.
    faults, pubCount, ackCount, nackCount, procFailed, postPubFault, envLastPub,
    resends,
    \* A call of open_connection taken alone: its position, its parameters,
    \* its local `attempts`, the value it returns, and what it did so far (each
    \* connection attempt with its outcome, each sleep) with the time slept.
    conn

inputVars   == << numEvents, validEvents, cfgFraction, cfgBatchSize >>
managerVars == << mpc, batches, sendIdx, processed, missing, samples_data, warned >>
collectVars == << numBatches, waitTime, terminateTime, startT, clock >>
brokerVars  == << tasks, results, unacked >>
workerVars  == << wpc, attempts, wbatch >>
historyVars == << faults, pubCount, ackCount, nackCount, procFailed, postPubFault, envLastPub, resends >>

vars == << conn, inputVars, managerVars, collectVars, brokerVars, workerVars, historyVars >>

\* The object that pika.BlockingConnection returns.
Connection == << "BlockingConnection" >>

\* No call of open_connection is followed.
ConnIdle ==
    conn = [ pc |-> "idle", retries |-> 0, wait_time |-> 0, attempts |-> 0,
             connection |-> None, trace |-> << >>, slept |-> 0 ]

\* The worker processes started beside the manager.
Workers == { 1, 2 }

NoMsg == << >>
NoBatch == << >>
NoData == << >>

\* The entries a subsample's file may hold, and the events of a batch that
\* may survive the cuts: the values around main()'s threshold.
SourceSizes == { 0, BATCH_SIZE }
EventCounts == { 0, MIN_EVENTS - 1, MIN_EVENTS }

\* The inputs of a run: the events that pass the cuts vary for the batches
\* of data_A; every event of the other subsamples passes them.
ValidEventsOf(s, data_num_events) ==
    IF data_num_events = 0 THEN { 0 }
    ELSE IF s = "data_A" THEN EventCounts
    ELSE { data_num_events }

Zeros(n) == [ i \in 1..n |-> 0 ]

Bump(f, i) == [ f EXCEPT ![i] = @ + 1 ]

(***************************************************************************)
(* The manager: main() of higgs_manager.py.                                *)
(***************************************************************************)
ManagerInit ==
    /\ mpc = "connect"
    /\ batches = << >>
    /\ sendIdx = 1
    /\ processed = << >>
    /\ missing = NoMissing
    /\ samples_data = NoData
    /\ warned = {}
    /\ numBatches = 0
    /\ waitTime = 0
    /\ terminateTime = 0
    /\ startT = 0
    /\ clock = 0

\* open_connection returned a connection.
MgrConnect ==
    /\ mpc = "connect"
    /\ mpc' = "batch"
    /\ UNCHANGED << conn, inputVars, batches, sendIdx, processed, missing, samples_data,
                    warned, collectVars, brokerVars, workerVars, historyVars >>

\* open_connection returned None: sys.exit(1).
MgrConnectFail ==
    /\ mpc = "connect"
    /\ mpc' = "exit_connect"
    /\ UNCHANGED << conn, inputVars, batches, sendIdx, processed, missing, samples_data,
                    warned, collectVars, brokerVars, workerVars, historyVars >>

\* batches = data_batcher(config.SAMPLES, config.PATH, config.FRACTION,
\* config.BATCH_SIZE)
MgrBatch ==
    /\ mpc = "batch"
    /\ batches' = data_batcher(SAMPLES, numEvents, cfgFraction, cfgBatchSize)
    /\ sendIdx' = 1
    /\ pubCount' = Zeros(Len(batches'))
    /\ ackCount' = Zeros(Len(batches'))
    /\ nackCount' = Zeros(Len(batches'))
    /\ mpc' = "send"
    /\ UNCHANGED << conn, inputVars, processed, missing, samples_data, warned,
                    collectVars, brokerVars, workerVars, faults, procFailed,
                    postPubFault, envLastPub, resends >>

data_batcher_keeps_partial(samples, nev, fraction, batch_size) ==
    data_batcher(samples, nev, fraction, batch_size)

\* main()'s `batches` when uproot.open raises inside data_batcher: the list
\* built so far is local to the call and is lost with it, the assignment in
\* main() never happens.
data_batcher_raises(samples, nev, fraction, batch_size) == << >>

\* uproot.open raises inside data_batcher: main() dies with the exception.
MgrBatchFail ==
    /\ mpc = "batch"
    /\ batches' = data_batcher_raises(SAMPLES, numEvents, cfgFraction, cfgBatchSize)
    /\ mpc' = "raise_source"
    /\ UNCHANGED << conn, inputVars, sendIdx, processed, missing, samples_data,
                    warned, collectVars, brokerVars, workerVars, historyVars >>

\* One turn of send_data's loop: basic_publish of the next batch.
MgrSend ==
    /\ mpc = "send"
    /\ sendIdx <= Len(batches)
    /\ tasks' = Append(tasks, pickle_dumps(batches[sendIdx]))
    /\ sendIdx' = sendIdx + 1
    /\ UNCHANGED << conn, inputVars, mpc, batches, processed, missing, samples_data,
                    warned, collectVars, results, unacked, workerVars, historyVars >>

\* queue_declare or basic_publish raises in send_data, which has no handler,
\* and neither has main(): the manager dies with the exception, the batches
\* from this one on unpublished.
MgrSendFail ==
    /\ mpc = "send"
    /\ sendIdx <= Len(batches)
    /\ faults < MaxFaults
    /\ faults' = faults + 1
    /\ mpc' = "raise_publish"
    /\ UNCHANGED << conn, inputVars, batches, sendIdx, processed, missing, samples_data,
                    warned, collectVars, brokerVars, workerVars, pubCount,
                    ackCount, nackCount, procFailed, postPubFault, envLastPub,
                    resends >>

\* send_data returns; retrieve_batches(connection, RESULTS_QUEUE,
\* len(batches), wait_time=1, terminate_time=240) starts its timer.
MgrStartCollect ==
    /\ mpc = "send"
    /\ sendIdx > Len(batches)
    /\ numBatches' = Len(batches)
    /\ waitTime' = WAIT_TIME
    /\ terminateTime' = TERMINATE_TIME
    /\ startT' = clock
    /\ processed' = << >>
    /\ mpc' = "collect"
    /\ UNCHANGED << conn, inputVars, batches, sendIdx, missing, samples_data, warned,
                    clock, brokerVars, workerVars, historyVars >>

TimedOutEarly(elapsed, terminate_time) == 2 * elapsed > terminate_time

TimedOutLate(elapsed, terminate_time) == elapsed > terminate_time + 1

\* time.time() - start > terminate_time
TimedOut(elapsed, terminate_time) == elapsed > terminate_time

SleepTwice(now, wait_time) == now + 2 * wait_time

\* time.sleep(wait_time)
Sleep(now, wait_time) == now + wait_time

MoreExpectedOrNone(n, num_batches) == n # num_batches \/ n = 0

MoreExpectedInclusive(n, num_batches) == n <= num_batches

\* while len(batches) != num_batches
MoreExpected(n, num_batches) == n # num_batches

\* One turn of retrieve_batches' loop: basic_get with auto_ack, append the
\* message if there is one, return if the time is up, else sleep.
MgrPoll ==
    /\ mpc = "collect"
    /\ MoreExpected(Len(processed), numBatches)
    /\ IF results # << >>
       THEN /\ processed' = Append(processed, pickle_loads(Head(results)))
            /\ results' = Tail(results)
       ELSE UNCHANGED << processed, results >>
    /\ IF TimedOut(clock - startT, terminateTime)
       THEN /\ mpc' = "check"
            /\ clock' = clock
       ELSE /\ mpc' = mpc
            /\ clock' = Sleep(clock, waitTime)
    /\ UNCHANGED << conn, inputVars, batches, sendIdx, missing, samples_data, warned,
                    numBatches, waitTime, terminateTime, startT, tasks, unacked,
                    workerVars, historyVars >>

\* The loop ends with len(batches) == num_batches: retrieve_batches returns.
MgrCollected ==
    /\ mpc = "collect"
    /\ ~MoreExpected(Len(processed), numBatches)
    /\ mpc' = "check"
    /\ UNCHANGED << conn, inputVars, batches, sendIdx, processed, missing, samples_data,
                    warned, collectVars, brokerVars, workerVars, historyVars >>

NoResultsNever(processed_batches) == FALSE

\* len(processed_batches) == 0
NoResults(processed_batches) == Len(processed_batches) = 0

\* if len(processed_batches) == 0: sys.exit(1)
MgrCheck ==
    /\ mpc = "check"
    /\ mpc' = IF NoResults(processed) THEN "exit_noresults" ELSE "reconcile"
    /\ UNCHANGED << conn, inputVars, batches, sendIdx, processed, missing, samples_data,
                    warned, collectVars, brokerVars, workerVars, historyVars >>

\* len(missing_data_batches) > len(batches) // 2
TooManyMissing(n_missing, n_batches) == n_missing > n_batches \div 2

\* missing_batches and the branch on its result.  In the else branch main()
\* iterates over the function missing_batches, not over the list it returned:
\* "for batch in missing_batches" raises TypeError.
MgrReconcile ==
    /\ mpc = "reconcile"
    /\ missing' = missing_batches(batches, processed)
    /\ mpc' = IF missing'.isNone THEN "group"
              ELSE IF TooManyMissing(Cardinality(missing'.list), Len(batches))
                   THEN "exit_missing"
                   ELSE "raise_TypeError"
    /\ UNCHANGED << conn, inputVars, batches, sendIdx, processed, samples_data, warned,
                    collectVars, brokerVars, workerVars, historyVars >>

\* group_batches(batches, samples): per sample the concatenation of the
\* processed_data of its batches, in the order of the list.
group_batches(bs, samples) ==
    [ name \in { samples[i].name : i \in 1..Len(samples) } |->
        ak_concatenate(SampleArrays(bs, name)) ]

\* The samples for which group_batches hands an empty list to ak.concatenate.
NoBatchSamples(bs, samples) ==
    { samples[i].name : i \in { j \in 1..Len(samples) :
                                  SampleArrays(bs, samples[j].name) = << >> } }

\* samples_data = group_batches(processed_batches, config.SAMPLES).  With no
\* batch of some sample, ak.concatenate gets an empty list: the library
\* either raises ValueError there or returns an empty array.
MgrGroup ==
    /\ mpc = "group"
    /\ \/ /\ samples_data' = group_batches(processed, SAMPLES)
          /\ mpc' = "validate"
       \/ /\ NoBatchSamples(processed, SAMPLES) # {}
          /\ samples_data' = samples_data
          /\ mpc' = "raise_ValueError"
    /\ UNCHANGED << conn, inputVars, batches, sendIdx, processed, missing, warned,
                    collectVars, brokerVars, workerVars, historyVars >>

LowPopulationInclusive(n) == n <= MIN_EVENTS

\* len(samples_data[sample]) < 50
LowPopulation(n) == n < MIN_EVENTS

\* The loop over config.SAMPLES that checks each sample's population, from
\* sample i on: the exit it takes and the samples it warned about.
RECURSIVE ValidateFrom(_, _, _, _)
ValidateFrom(samples, data, i, w) ==
    IF i > Len(samples) THEN [pc |-> "done", warned |-> w]
    ELSE IF ArrayLen(data[samples[i].name]) = 0
         THEN [pc |-> "exit_nodata", warned |-> w]
         ELSE ValidateFrom(samples, data, i + 1,
                  IF LowPopulation(ArrayLen(data[samples[i].name]))
                  THEN w \cup {samples[i].name} ELSE w)

\* The population checks, then plot_data and the success message.
MgrValidate ==
    /\ mpc = "validate"
    /\ LET r == ValidateFrom(SAMPLES, samples_data, 1, {})
       IN  /\ mpc' = r.pc
           /\ warned' = r.warned
    /\ UNCHANGED << conn, inputVars, batches, sendIdx, processed, missing, samples_data,
                    collectVars, brokerVars, workerVars, historyVars >>

ExitStatusSwallowed(pc) ==
    IF pc \in { "done", "exit_noresults" } THEN 0
    ELSE IF pc \in { "exit_connect", "exit_missing", "exit_nodata",
                     "raise_source", "raise_publish", "raise_TypeError",
                     "raise_ValueError" }
         THEN 1
         ELSE -1

ExitStatusPublishIgnored(pc) ==
    IF pc \in { "done", "raise_publish" } THEN 0
    ELSE IF pc \in { "exit_connect", "exit_noresults", "exit_missing",
                     "exit_nodata", "raise_source", "raise_TypeError",
                     "raise_ValueError" }
         THEN 1
         ELSE -1

\* The manager's exit status: 0 at the end of main(), 1 from sys.exit(1) and
\* from an uncaught exception, -1 while it runs.
ExitStatus(pc) ==
    IF pc = "done" THEN 0
    ELSE IF pc \in { "exit_connect", "exit_noresults", "exit_missing",
                     "exit_nodata", "raise_source", "raise_publish",
                     "raise_TypeError", "raise_ValueError" }
         THEN 1
         ELSE -1

(***************************************************************************)
(* The workers: main() of higgs_worker.py.                                 *)
(***************************************************************************)
WorkerInit ==
    /\ wpc = [ w \in Workers |-> "connect" ]
    /\ attempts = [ w \in Workers |-> 0 ]
    /\ wbatch = [ w \in Workers |-> NoBatch ]

\* open_connection returned a connection; the worker enters its loop.
WConnect(w) ==
    /\ wpc[w] = "connect"
    /\ wpc' = [wpc EXCEPT ![w] = "fetch"]
    /\ UNCHANGED << conn, inputVars, managerVars, collectVars, brokerVars, attempts,
                    wbatch, historyVars >>

\* open_connection returned None: sys.exit(1).
WConnectFail(w) ==
    /\ wpc[w] = "connect"
    /\ wpc' = [wpc EXCEPT ![w] = "exit1"]
    /\ UNCHANGED << conn, inputVars, managerVars, collectVars, brokerVars, attempts,
                    wbatch, historyVars >>

BasicGetPeek(queue) == queue

\* The queue after a basic_get that returned its first message: the broker
\* hands a message to one consumer and keeps it off the queue until it is
\* settled.
BasicGet(queue) == Tail(queue)

MoreAttemptsInclusive(n, retries) == n <= retries

MoreAttemptsOnce(n, retries) == FALSE

\* while attempts < retries
MoreAttempts(n, retries) == n < retries

WorkerExitStatusZero(pc) ==
    IF pc \in { "exit0", "exit1" } THEN 0 ELSE -1

\* The worker's exit status: sys.exit(0) when no task is left, sys.exit(1)
\* without a connection, -1 while it runs.
WorkerExitStatus(pc) ==
    IF pc = "exit0" THEN 0 ELSE IF pc = "exit1" THEN 1 ELSE -1

\* One turn of retrieve_batch's loop: basic_get without auto_ack.  A message
\* is returned with its delivery tag; after `retries` empty polls the
\* function returns (None, None) and main() closes and exits with 0.
WPoll(w) ==
    /\ wpc[w] = "fetch"
    /\ IF tasks # << >>
       THEN /\ unacked' = [unacked EXCEPT ![w] = Head(tasks)]
            /\ tasks' = BasicGet(tasks)
            /\ wbatch' = [wbatch EXCEPT ![w] = pickle_loads(Head(tasks))]
            /\ attempts' = [attempts EXCEPT ![w] = 0]
            /\ wpc' = [wpc EXCEPT ![w] = "process"]
       ELSE /\ attempts' = [attempts EXCEPT ![w] = @ + 1]
            /\ wpc' = [wpc EXCEPT ![w] =
                          IF MoreAttempts(attempts[w] + 1, RETRIES)
                          THEN "fetch" ELSE "exit0"]
            /\ UNCHANGED << tasks, unacked, wbatch >>
    /\ UNCHANGED << conn, inputVars, managerVars, collectVars, results, historyVars >>

process_data_new_id(batch, nvalid) ==
    [ batch EXCEPT !.batch_id = Len(batches) + batch.batch_id,
                   !.processed_data =
        << [ src |-> batch.batch_id,
             n   |-> Min(nvalid, batch.stop_index - batch.start_index) ] >> ]

\* process_data: the batch with its processed_data set to the events of its
\* range that pass the cuts.
process_data(batch, nvalid) ==
    [ batch EXCEPT !.processed_data =
        << [ src |-> batch.batch_id,
             n   |-> Min(nvalid, batch.stop_index - batch.start_index) ] >> ]

NackDiscard(queue, msg) == queue

NackRequeueTwice(queue, msg) == <<msg, msg>> \o queue

\* basic_nack(message_tag, requeue=True): the broker puts the delivery back
\* at the head of its queue.
NackRequeue(queue, msg) == <<msg>> \o queue

ReleaseNothing(held, w) == held

\* After basic_ack or basic_nack the channel of worker w holds no
\* unacknowledged delivery.
Release(held, w) == [held EXCEPT ![w] = NoMsg]

AckRequeues(queue, msg) == <<msg>> \o queue

\* basic_ack(message_tag): the delivery is gone from the broker.
BasicAck(queue, msg) == queue

\* The try block up to the publish: process_data, then send_data of the
\* processed batch to the results queue.
WProcess(w) ==
    /\ wpc[w] = "process"
    /\ LET done == process_data(wbatch[w], validEvents[wbatch[w].subsample])
       IN  /\ wbatch' = [wbatch EXCEPT ![w] = done]
           /\ results' = Append(results, pickle_dumps(done))
           /\ pubCount' = Bump(pubCount, done.batch_id)
    /\ wpc' = [wpc EXCEPT ![w] = "ack"]
    /\ UNCHANGED << conn, inputVars, managerVars, collectVars, tasks, unacked, attempts,
                    faults, ackCount, nackCount, procFailed, postPubFault,
                    envLastPub, resends >>

\* process_data (or send_data before its publish) raises: the except branch
\* nacks the task with requeue and the loop goes on.
WProcessFail(w) ==
    /\ wpc[w] = "process"
    /\ faults < MaxFaults
    /\ faults' = faults + 1
    /\ tasks' = NackRequeue(tasks, unacked[w])
    /\ unacked' = Release(unacked, w)
    /\ nackCount' = Bump(nackCount, wbatch[w].batch_id)
    /\ procFailed' = procFailed \cup { wbatch[w].batch_id }
    /\ wbatch' = [wbatch EXCEPT ![w] = NoBatch]
    /\ wpc' = [wpc EXCEPT ![w] = "fetch"]
    /\ UNCHANGED << conn, inputVars, managerVars, collectVars, results, attempts,
                    pubCount, ackCount, postPubFault, envLastPub, resends >>

\* channel.basic_ack(message_tag), the last statement of the try block.
WAck(w) ==
    /\ wpc[w] = "ack"
    /\ tasks' = BasicAck(tasks, unacked[w])
    /\ unacked' = Release(unacked, w)
    /\ ackCount' = Bump(ackCount, wbatch[w].batch_id)
    /\ wbatch' = [wbatch EXCEPT ![w] = NoBatch]
    /\ wpc' = [wpc EXCEPT ![w] = "fetch"]
    /\ UNCHANGED << conn, inputVars, managerVars, collectVars, results, attempts,
                    faults, pubCount, nackCount, procFailed, postPubFault,
                    envLastPub, resends >>

\* basic_ack raises after the result was published: the except branch nacks
\* the task with requeue.
WAckFail(w) ==
    /\ wpc[w] = "ack"
    /\ faults < MaxFaults
    /\ faults' = faults + 1
    /\ tasks' = NackRequeue(tasks, unacked[w])
    /\ unacked' = Release(unacked, w)
    /\ nackCount' = Bump(nackCount, wbatch[w].batch_id)
    /\ postPubFault' = postPubFault \cup { wbatch[w].batch_id }
    /\ wbatch' = [wbatch EXCEPT ![w] = NoBatch]
    /\ wpc' = [wpc EXCEPT ![w] = "fetch"]
    /\ UNCHANGED << conn, inputVars, managerVars, collectVars, results, attempts,
                    pubCount, ackCount, procFailed, envLastPub, resends >>

\* The worker process dies with a task in hand: its connection closes and the
\* broker requeues the unacknowledged delivery.
WCrash(w) ==
    /\ wpc[w] \in { "process", "ack" }
    /\ faults < MaxFaults
    /\ faults' = faults + 1
    /\ tasks' = <<unacked[w]>> \o tasks
    /\ unacked' = [unacked EXCEPT ![w] = NoMsg]
    /\ postPubFault' = IF wpc[w] = "ack"
                       THEN postPubFault \cup { wbatch[w].batch_id }
                       ELSE postPubFault
    /\ wbatch' = [wbatch EXCEPT ![w] = NoBatch]
    /\ wpc' = [wpc EXCEPT ![w] = "crashed"]
    /\ UNCHANGED << conn, inputVars, managerVars, collectVars, results, attempts,
                    pubCount, ackCount, nackCount, procFailed, envLastPub, resends >>

(***************************************************************************)
(* One run of the manager and the workers on a fresh broker.               *)
(***************************************************************************)
BrokerInit ==
    /\ tasks = << >>
    /\ results = << >>
    /\ unacked = [ w \in Workers |-> NoMsg ]

HistoryInit ==
    /\ faults = 0
    /\ pubCount = << >>
    /\ ackCount = << >>
    /\ nackCount = << >>
    /\ procFailed = {}
    /\ postPubFault = {}
    /\ envLastPub = 0
    /\ resends = 0

Init ==
    /\ numEvents \in [ Subsamples -> SourceSizes ]
    /\ validEvents \in [ Subsamples -> EventCounts \cup SourceSizes ]
    /\ \A s \in Subsamples : validEvents[s] \in ValidEventsOf(s, numEvents[s])
    /\ cfgFraction = FRACTION
    /\ cfgBatchSize = BATCH_SIZE
    /\ ConnIdle
    /\ ManagerInit
    /\ BrokerInit
    /\ WorkerInit
    /\ HistoryInit

Next ==
    \/ MgrConnect
    \/ MgrConnectFail
    \/ MgrBatch
    \/ MgrBatchFail
    \/ MgrSend
    \/ MgrSendFail
    \/ MgrStartCollect
    \/ MgrPoll
    \/ MgrCollected
    \/ MgrCheck
    \/ MgrReconcile
    \/ MgrGroup
    \/ MgrValidate
    \/ \E w \in Workers : WConnect(w)
    \/ \E w \in Workers : WConnectFail(w)
    \/ \E w \in Workers : WPoll(w)
    \/ \E w \in Workers : WProcess(w)
    \/ \E w \in Workers : WProcessFail(w)
    \/ \E w \in Workers : WAck(w)
    \/ \E w \in Workers : WAckFail(w)
    \/ \E w \in Workers : WCrash(w)

Spec == Init /\ [][Next]_vars

\* The next statement of the manager's main(), when nothing fails.
MgrStep ==
    \/ MgrConnect
    \/ MgrBatch
    \/ MgrSend
    \/ MgrStartCollect
    \/ MgrPoll
    \/ MgrCollected
    \/ MgrCheck
    \/ MgrReconcile
    \/ MgrGroup
    \/ MgrValidate

\* The next statement of worker w's main(), when nothing fails.
WStep(w) ==
    \/ WConnect(w)
    \/ WPoll(w)
    \/ WProcess(w)
    \/ WAck(w)

\* The same system with the manager and the workers running processes: each
\* of them goes on to its next statement as long as it has one.  Failures
\* happen or not, as they please.
SpecFair ==
    /\ Init
    /\ [][Next]_vars
    /\ WF_vars(MgrStep)
    /\ \A w \in Workers : WF_vars(WStep(w))

(***************************************************************************)
(* The functions taken alone, on inputs drawn from bounded sets.           *)
(***************************************************************************)
\* A batch with the given id, and the same batch as a worker returns it.
TestBatch(id) ==
    DataBatch(id, "data", "data_A", "measured", PathSubsample("data", "data_A"),
              <<1, 1>>, 0, 1)

TestResult(id) == process_data(TestBatch(id), 1)

SeqsUpTo(S, n) == UNION { [ 1..k -> S ] : k \in 0..n }

Idle ==
    /\ BrokerInit
    /\ WorkerInit
    /\ HistoryInit

\* data_batcher on every source size, fraction and batch size.
InitBatcher ==
    /\ numEvents \in [ Subsamples -> 0..MaxT ]
    /\ validEvents = [ s \in Subsamples |-> 0 ]
    /\ cfgFraction \in Fractions
    /\ cfgBatchSize \in 1..MaxB
    /\ ConnIdle
    /\ ManagerInit
    /\ Idle

NextBatcher ==
    \/ MgrConnect
    \/ MgrBatch

SpecBatcher == InitBatcher /\ [][NextBatcher]_vars

\* missing_batches, as main() calls it, on every pair of lists.
InitMissing ==
    /\ numEvents = [ s \in Subsamples |-> 0 ]
    /\ validEvents = [ s \in Subsamples |-> 0 ]
    /\ cfgFraction = FRACTION
    /\ cfgBatchSize = BATCH_SIZE
    /\ ConnIdle
    /\ mpc = "reconcile"
    /\ batches \in SeqsUpTo({ TestBatch(id) : id \in 1..MaxIds }, MaxListLen)
    /\ processed \in SeqsUpTo({ TestResult(id) : id \in 1..MaxIds }, MaxListLen)
    /\ sendIdx = Len(batches) + 1
    /\ missing = NoMissing
    /\ samples_data = NoData
    /\ warned = {}
    /\ numBatches = Len(batches)
    /\ waitTime = WAIT_TIME
    /\ terminateTime = TERMINATE_TIME
    /\ startT = 0
    /\ clock = 0
    /\ Idle

NextMissing == MgrReconcile

SpecMissing == InitMissing /\ [][NextMissing]_vars

\* retrieve_batches on every expected count, poll interval and deadline,
\* with a results queue that other processes fill at any time: message i is
\* the result of batch i.
PubTotal == SumN([ i \in 1..Len(pubCount) |-> [n |-> pubCount[i]] ])

InitCollect ==
    /\ numEvents = [ s \in Subsamples |-> 0 ]
    /\ validEvents = [ s \in Subsamples |-> 0 ]
    /\ cfgFraction = FRACTION
    /\ cfgBatchSize = BATCH_SIZE
    /\ ConnIdle
    /\ mpc = "collect"
    /\ batches = << >>
    /\ sendIdx = 1
    /\ processed = << >>
    /\ missing = NoMissing
    /\ samples_data = NoData
    /\ warned = {}
    /\ numBatches \in 0..MaxK
    /\ waitTime \in 1..MaxWait
    /\ terminateTime \in 0..MaxDeadline
    /\ startT = 0
    /\ clock = 0
    /\ BrokerInit
    /\ WorkerInit
    /\ faults = 0
    /\ pubCount = Zeros(MaxK)
    /\ ackCount = << >>
    /\ nackCount = << >>
    /\ procFailed = {}
    /\ postPubFault = {}
    /\ envLastPub = 0
    /\ resends = 0

\* Some process publishes the next result to the results queue, before the
\* manager's next poll.
EnvPublish ==
    /\ mpc = "collect"
    /\ PubTotal < MaxK
    /\ results' = Append(results, pickle_dumps(TestResult(PubTotal + 1)))
    /\ pubCount' = Bump(pubCount, PubTotal + 1)
    /\ envLastPub' = clock
    /\ UNCHANGED << conn, inputVars, managerVars, collectVars, tasks, unacked,
                    workerVars, faults, ackCount, nackCount, procFailed,
                    postPubFault, resends >>

NextCollect ==
    \/ MgrPoll
    \/ MgrCollected
    \/ EnvPublish

SpecCollect == InitCollect /\ [][NextCollect]_vars

\* The same, with the manager a running process: it always takes the next
\* turn of its loop.  The other processes publish or not, as they please.
SpecCollectFair ==
    /\ InitCollect
    /\ [][NextCollect]_vars
    /\ WF_vars(MgrPoll)
    /\ WF_vars(MgrCollected)

\* send_data, as main() calls it, on every list of batches and on a queue
\* that may hold a message already; the caller may call it again with the
\* same list.
InitSend ==
    /\ numEvents = [ s \in Subsamples |-> 0 ]
    /\ validEvents = [ s \in Subsamples |-> 0 ]
    /\ cfgFraction = FRACTION
    /\ cfgBatchSize = BATCH_SIZE
    /\ ConnIdle
    /\ mpc = "send"
    /\ batches \in SeqsUpTo({ TestBatch(id) : id \in 1..MaxIds }, MaxListLen)
    /\ sendIdx = 1
    /\ processed = << >>
    /\ missing = NoMissing
    /\ samples_data = NoData
    /\ warned = {}
    /\ numBatches = 0
    /\ waitTime = 0
    /\ terminateTime = 0
    /\ startT = 0
    /\ clock = 0
    /\ tasks \in SeqsUpTo({ pickle_dumps(TestBatch(id)) : id \in 1..MaxIds }, 1)
    /\ results = << >>
    /\ unacked = [ w \in Workers |-> NoMsg ]
    /\ WorkerInit
    /\ HistoryInit

\* send_data has returned and is called again with the same list.
SendAgain ==
    /\ mpc = "send"
    /\ sendIdx > Len(batches)
    /\ resends < MaxResends
    /\ resends' = resends + 1
    /\ sendIdx' = 1
    /\ UNCHANGED << conn, inputVars, mpc, batches, processed, missing, samples_data,
                    warned, collectVars, brokerVars, workerVars, faults,
                    pubCount, ackCount, nackCount, procFailed, postPubFault,
                    envLastPub >>

NextSend ==
    \/ MgrSend
    \/ SendAgain

SpecSend == InitSend /\ [][NextSend]_vars

\* group_batches and the population checks, as main() calls them, on every
\* list of up to MaxGroupLen processed batches: each batch is of one of the
\* samples and holds no event, one event or MIN_EVENTS events.
GroupIds == { 1, 2 }

GroupResult(id, sample, n) ==
    process_data(DataBatch(id, sample,
                           SAMPLES[CHOOSE i \in 1..Len(SAMPLES) : SAMPLES[i].name = sample].list[1],
                           SampleType(sample), << >>, FRACTION, 0, BATCH_SIZE), n)

GroupResults ==
    { GroupResult(id, sample, n) :
        id \in GroupIds, sample \in SampleNames, n \in { 0, 1, MIN_EVENTS } }

InitGroup ==
    /\ numEvents = [ s \in Subsamples |-> 0 ]
    /\ validEvents = [ s \in Subsamples |-> 0 ]
    /\ cfgFraction = FRACTION
    /\ cfgBatchSize = BATCH_SIZE
    /\ ConnIdle
    /\ mpc = "group"
    /\ batches = << >>
    /\ sendIdx = 1
    /\ processed \in SeqsUpTo(GroupResults, MaxGroupLen)
    /\ missing = NoMissing
    /\ samples_data = NoData
    /\ warned = {}
    /\ numBatches = 0
    /\ waitTime = 0
    /\ terminateTime = 0
    /\ startT = 0
    /\ clock = 0
    /\ Idle

NextGroup ==
    \/ MgrGroup
    \/ MgrValidate

SpecGroup == InitGroup /\ [][NextGroup]_vars

\* open_connection on every number of retries and every wait time, against
\* a server that accepts or refuses each attempt.
InitConnect ==
    /\ numEvents = [ s \in Subsamples |-> 0 ]
    /\ validEvents = [ s \in Subsamples |-> 0 ]
    /\ cfgFraction = FRACTION
    /\ cfgBatchSize = BATCH_SIZE
    /\ \E retries \in -1..MaxRetries, wait_time \in 0..MaxWait :
         conn = [ pc |-> "loop", retries |-> retries, wait_time |-> wait_time,
                  attempts |-> 0, connection |-> None, trace |-> << >>,
                  slept |-> 0 ]
    /\ ManagerInit
    /\ Idle

\* while attempts < retries
MoreConnAttempts(n, retries) == n < retries

WaitBeforeNextAlways(n, retries) == TRUE

\* if attempts < retries: time.sleep(wait_time)
WaitBeforeNext(n, retries) == n < retries

\* pika.BlockingConnection returns: open_connection returns the connection.
ConnectOk ==
    /\ conn.pc = "loop"
    /\ MoreConnAttempts(conn.attempts, conn.retries)
    /\ conn' = [ conn EXCEPT !.pc = "return",
                             !.connection = Connection,
                             !.trace = Append(@, "ok") ]
    /\ UNCHANGED << inputVars, managerVars, collectVars, brokerVars, workerVars,
                    historyVars >>

\* pika.BlockingConnection raises AMQPConnectionError: the attempt is
\* counted; with attempts left the function sleeps and loops, else it
\* returns None.
ConnectRefused ==
    /\ conn.pc = "loop"
    /\ MoreConnAttempts(conn.attempts, conn.retries)
    /\ conn' = IF WaitBeforeNext(conn.attempts + 1, conn.retries)
               THEN [ conn EXCEPT !.attempts = @ + 1,
                                  !.trace = @ \o << "refused", "sleep" >>,
                                  !.slept = @ + conn.wait_time ]
               ELSE [ conn EXCEPT !.attempts = @ + 1,
                                  !.trace = Append(@, "refused"),
                                  !.pc = "return",
                                  !.connection = None ]
    /\ UNCHANGED << inputVars, managerVars, collectVars, brokerVars, workerVars,
                    historyVars >>

\* The while condition is false: the return None after the loop.
ConnectLoopExit ==
    /\ conn.pc = "loop"
    /\ ~ MoreConnAttempts(conn.attempts, conn.retries)
    /\ conn' = [ conn EXCEPT !.pc = "return", !.connection = None ]
    /\ UNCHANGED << inputVars, managerVars, collectVars, brokerVars, workerVars,
                    historyVars >>

NextConnect ==
    \/ ConnectOk
    \/ ConnectRefused
    \/ ConnectLoopExit

SpecConnect == InitConnect /\ [][NextConnect]_vars

(***************************************************************************)
(* The claims.                                                             *)
(***************************************************************************)
\* The batches of subsample s, as indices of main()'s list.
BatchesOf(s) == { i \in 1..Len(batches) : batches[i].subsample = s }

Indices(b) == b.start_index .. (b.stop_index - 1)

Batched == mpc = "send"

\* C1: for every source size T > 0, fraction 0 < f <= 1 and batch size B > 0,
\* the batches that data_batcher emits for one subsample have ranges
\* [start, stop) that are non-empty, pairwise disjoint, inside [0, N) and
\* whose union is [0, N), with N = min(T, round(T * f)).
C1_RangesPartition ==
    Batched =>
      \A s \in Subsamples :
        numEvents[s] > 0 =>
          LET N == Min(numEvents[s],
                       Round(numEvents[s] * cfgFraction[1], cfgFraction[2]))
          IN  /\ \A i \in BatchesOf(s) :
                   /\ 0 <= batches[i].start_index
                   /\ batches[i].start_index < batches[i].stop_index
                   /\ batches[i].stop_index <= N
              /\ \A i, j \in BatchesOf(s) :
                   i # j => Indices(batches[i]) \cap Indices(batches[j]) = {}
              /\ UNION { Indices(batches[i]) : i \in BatchesOf(s) } = 0..(N - 1)

\* A subsample cut into at least two batches, the last one shorter than the
\* batch size.
C1_Witness ==
    /\ Batched
    /\ \E s \in Subsamples :
         /\ Cardinality(BatchesOf(s)) >= 2
         /\ \E i \in BatchesOf(s) :
              /\ batches[i].start_index > 0
              /\ batches[i].stop_index - batches[i].start_index < cfgBatchSize

Reconciled == mpc \in { "group", "exit_missing", "raise_TypeError" }

\* C2 as stated: missing_batches(E, R) returns None if and only if the ids of
\* R are the ids of E; otherwise the ids of the batches it returns are the
\* ids of E that are not ids of R.
C2_Original ==
    Reconciled =>
      /\ missing.isNone <=> BatchIds(processed) = BatchIds(batches)
      /\ ~missing.isNone =>
           IdsOf(missing.list) = { id \in BatchIds(batches) :
                                         id \notin BatchIds(processed) }

\* C2 as amended: missing_batches(E, R) returns None if and only if every id
\* of E is an id of R; otherwise the ids of the batches it returns are the
\* ids of E that are not ids of R.
C2_MissingIds ==
    Reconciled =>
      /\ missing.isNone <=> BatchIds(batches) \subseteq BatchIds(processed)
      /\ ~missing.isNone =>
           IdsOf(missing.list) = { id \in BatchIds(batches) :
                                         id \notin BatchIds(processed) }

\* Some expected batches came back, some did not, and one is listed twice.
C2_Witness ==
    /\ Reconciled
    /\ ~missing.isNone
    /\ BatchIds(processed) \cap BatchIds(batches) # {}
    /\ Cardinality(missing.list) < Cardinality(BatchIds(batches))

\* The ids of main()'s list that are in no retrieved batch.
MissingCount ==
    Cardinality({ id \in BatchIds(batches) : id \notin BatchIds(processed) })

PastReconcile ==
    mpc \in { "group", "validate", "done", "exit_nodata", "raise_ValueError",
              "exit_missing", "raise_TypeError" }

\* C3: when some batches are missing and they are no more than 50% of the
\* expected ones, the manager warns and goes on to group the retrieved
\* batches; it does not end with an error there.
C3_ProceedsWithWarning ==
    (PastReconcile /\ MissingCount > 0 /\ 2 * MissingCount <= Len(batches)) =>
      mpc \in { "group", "validate", "done", "exit_nodata", "raise_ValueError" }

Returned == mpc = "check"

Elapsed == clock - startT

\* C4 as stated: for every k, poll interval and deadline, if the results
\* queue yields exactly k distinct messages before the deadline then
\* retrieve_batches, called with num_batches = k, returns all k batches and
\* returns before the deadline has passed.
C4_Original ==
    (Returned /\ PubTotal = numBatches /\ envLastPub < startT + terminateTime) =>
      /\ Len(processed) = numBatches
      /\ Elapsed <= terminateTime

\* C4 as amended: retrieve_batches takes one message per poll interval (it
\* sleeps after every poll, also after one that returned a message).  If all
\* k messages are in the results queue by time t after its start and
\* t + k * wait_time <= terminate_time, it returns all k batches, each once,
\* and returns within the deadline.
C4_ReturnsAllInTime ==
    (Returned /\ PubTotal = numBatches
       /\ envLastPub + numBatches * waitTime <= startT + terminateTime) =>
      /\ Len(processed) = numBatches
      /\ BatchIds(processed) = 1..numBatches
      /\ Elapsed <= terminateTime

\* Two or more messages, the last published after the collection started,
\* all retrieved within the deadline.
C4_Witness ==
    /\ Returned
    /\ numBatches >= 2
    /\ PubTotal = numBatches
    /\ envLastPub > startT
    /\ envLastPub + numBatches * waitTime <= startT + terminateTime
    /\ Len(processed) = numBatches

\* C5: called with num_batches > 0 on a results queue that never yields a
\* message, retrieve_batches returns the empty list, no earlier than the
\* deadline and no later than one poll interval after it.
C5_EmptyAfterDeadline ==
    (Returned /\ numBatches > 0 /\ PubTotal = 0) =>
      /\ processed = << >>
      /\ Elapsed >= terminateTime
      /\ Elapsed <= terminateTime + waitTime

\* A timeout with nothing retrieved, a full poll interval after the
\* deadline.
C5_Witness ==
    /\ Returned
    /\ numBatches > 0
    /\ PubTotal = 0
    /\ terminateTime > 0
    /\ Elapsed = terminateTime + waitTime
    /\ waitTime > 1

\* How often id occurs in a list of batches, and in an array's chunks.
RECURSIVE CountId(_, _)
CountId(bs, id) ==
    IF bs = << >> THEN 0
    ELSE (IF Head(bs).batch_id = id THEN 1 ELSE 0) + CountId(Tail(bs), id)

RECURSIVE CountSrc(_, _)
CountSrc(arr, id) ==
    IF arr = << >> THEN 0
    ELSE (IF Head(arr).src = id THEN 1 ELSE 0) + CountSrc(Tail(arr), id)

MsgIds(q) == { q[i][1] : i \in 1..Len(q) }

HeldIds == { unacked[w][1] : w \in { v \in Workers : unacked[v] # NoMsg } }

Grouped == mpc \in { "validate", "done", "exit_nodata" }

C7_FailureRequeued ==
    [][ \A w \in Workers :
          ( /\ wpc[w] \in { "process", "ack" }
            /\ faults' = faults + 1
            /\ wpc'[w] # wpc[w]
            /\ wpc'[w] # "crashed" ) =>
          ( /\ wpc'[w] = "fetch"
            /\ tasks' = <<unacked[w]>> \o tasks
            /\ unacked'[w] = NoMsg
            /\ ackCount' = ackCount
            /\ nackCount'[wbatch[w].batch_id] = nackCount[wbatch[w].batch_id] + 1 )
      ]_vars

\* A worker has in hand, once more, a batch that was nacked before.
C7_Witness ==
    \E w \in Workers :
      /\ wpc[w] = "process"
      /\ wbatch[w].batch_id \in procFailed
      /\ nackCount[wbatch[w].batch_id] = 1
      /\ ackCount[wbatch[w].batch_id] = 0

\* The events retrieved for a sample.
RECURSIVE Population(_, _)
Population(bs, sample) ==
    IF bs = << >> THEN 0
    ELSE (IF Head(bs).sample = sample THEN Head(bs).processed_data[1].n ELSE 0)
         + Population(Tail(bs), sample)

Aggregating == mpc \in { "validate", "done", "exit_nodata", "raise_ValueError" }

\* C8: once the retrieved batches are grouped, a sample with no event ends
\* the run with exit status 1 and without plot_data; a run that ends well
\* has warned about exactly the samples with 1 to 49 events, and no sample
\* with 50 or more events is ever warned about.
C8_PopulationPolicy ==
    /\ (Aggregating /\ \E g \in SampleNames : Population(processed, g) = 0) =>
          mpc \in { "validate", "exit_nodata", "raise_ValueError" }
    /\ mpc \in { "exit_nodata", "raise_ValueError" } =>
          /\ ExitStatus(mpc) = 1
          /\ \E g \in SampleNames : Population(processed, g) = 0
    /\ mpc = "done" =>
          /\ ExitStatus(mpc) = 0
          /\ \A g \in SampleNames :
               g \in warned <=> ( /\ Population(processed, g) >= 1
                                  /\ Population(processed, g) <= 49 )
    /\ \A g \in warned :
          /\ Population(processed, g) >= 1
          /\ Population(processed, g) <= 49

\* A run that ends well with a warning for one sample and none for another,
\* which has exactly 50 events.
C8_Witness ==
    /\ mpc = "done"
    /\ \E g \in SampleNames : g \in warned
    /\ \E g \in SampleNames : Population(processed, g) = 50 /\ g \notin warned

\* C9: after a non-empty collection the manager ends with an error before
\* it groups the retrieved batches exactly when more than 50% of the expected
\* batches are missing: 2 * |missing| > |expected|.
C9_FatalIffOverHalf ==
    PastReconcile =>
      ( mpc \in { "exit_missing", "raise_TypeError" }
          <=> 2 * MissingCount > Len(batches) )

Dispatched ==
    mpc \notin { "connect", "exit_connect", "batch", "raise_source", "send",
                 "raise_publish" }

C11_AlwaysReturns ==
    /\ <>Returned
    /\ [] ( Returned =>
              /\ Elapsed <= terminateTime + waitTime
              /\ Len(processed) <= numBatches
              /\ Len(processed) + Len(results) = PubTotal
              /\ \A i \in 1..Len(processed) : processed[i] = TestResult(i) )

\* A return forced by the deadline, with some but not all of the expected
\* batches and a late message left in the queue.
C11_Witness ==
    /\ Returned
    /\ Len(processed) > 0
    /\ Len(processed) < numBatches
    /\ Elapsed > terminateTime
    /\ results # << >>

PastCheck == PastReconcile \/ mpc \in { "reconcile", "exit_noresults" }

\* The fatal conditions that main() reports itself, each with sys.exit.
FatalExits == { "exit_connect", "exit_noresults", "exit_missing" }

\* C12 as stated: the manager exits with status 0 on success, and each fatal
\* condition (no connection, no result retrieved, too many batches missing)
\* ends it with a non-zero status that differs from the status of the other
\* fatal conditions.
C12_Original ==
    /\ mpc = "done" => ExitStatus(mpc) = 0
    /\ mpc \in FatalExits =>
          /\ ExitStatus(mpc) # 0
          /\ \A other \in FatalExits \ { mpc } :
                ExitStatus(other) # ExitStatus(mpc)

\* C12 as amended: the manager exits with status 0 on success, and each
\* fatal condition ends it with the same non-zero status, 1: no connection,
\* no result retrieved (the list is empty), too many batches missing (more
\* than half).  No run that met one of them ends with status 0.
C12_ExitStatuses ==
    /\ mpc = "done" => ExitStatus(mpc) = 0
    /\ mpc \in FatalExits =>
          /\ ExitStatus(mpc) = 1
          /\ \A other \in FatalExits : ExitStatus(other) = ExitStatus(mpc)
    /\ mpc = "exit_connect" => batches = << >> /\ tasks = << >>
    /\ mpc = "exit_noresults" <=> (PastCheck /\ processed = << >>)
    /\ mpc = "exit_missing" =>
          processed # << >> /\ 2 * MissingCount > Len(batches)
    /\ ExitStatus(mpc) = 0 =>
          /\ mpc = "done"
          /\ processed # << >>

\* The run ended because too many batches were missing, after a collection
\* that was not empty.
C12_Witness ==
    /\ mpc = "exit_missing"
    /\ processed # << >>
    /\ ExitStatus(mpc) = 1

\* Worker w settles the delivery it holds, by its own call.
Settles(w) ==
    /\ unacked[w] # NoMsg
    /\ unacked'[w] = NoMsg
    /\ wpc'[w] # "crashed"

\* C13: a worker acks a task only after it has published the result of that
\* delivery; every delivery that a worker settles gets exactly one of ack
\* (after the publish) and nack with requeue (after a failure), never both,
\* and the worker lets go of it.  No ack or nack is issued otherwise.
C13_AckAfterPublish ==
    /\ [][ \A w \in Workers :
             Settles(w) =>
               LET id == unacked[w][1]
               IN  /\ wbatch[w].batch_id = id
                   /\ \/ /\ ackCount' = Bump(ackCount, id)
                         /\ nackCount' = nackCount
                         /\ tasks' = tasks
                         /\ wpc[w] = "ack"
                         /\ wbatch[w].processed_data # None
                         /\ pubCount[id] > ackCount[id]
                      \/ /\ nackCount' = Bump(nackCount, id)
                         /\ ackCount' = ackCount
                         /\ tasks' = <<unacked[w]>> \o tasks
                   /\ wbatch'[w] = NoBatch
                   /\ wpc'[w] = "fetch"
                   /\ pubCount' = pubCount ]_vars
    /\ [][ (mpc # "batch" /\ (ackCount' # ackCount \/ nackCount' # nackCount)) =>
             \E w \in Workers : Settles(w) ]_vars
    /\ [] ( \A id \in 1..Len(ackCount) : ackCount[id] <= pubCount[id] )

\* One batch was delivered twice: nacked the first time, published and
\* acked the second.
C13_Witness ==
    \E id \in 1..Len(ackCount) :
      /\ nackCount[id] = 1
      /\ ackCount[id] = 1
      /\ pubCount[id] = 1

\* C14: a worker handles one batch at a time.  It holds a delivery only
\* between the fetch that returned it and its ack or nack, and that delivery
\* is the batch it works on; it holds none when it fetches the next task and
\* none when it has exited, so it never holds two.
C14_OneAtATime ==
    \A w \in Workers :
      /\ unacked[w] # NoMsg <=> wpc[w] \in { "process", "ack" }
      /\ unacked[w] # NoMsg =>
            /\ wbatch[w] # NoBatch
            /\ wbatch[w].batch_id = unacked[w][1]
      /\ wpc[w] \in { "connect", "fetch", "exit0", "exit1", "crashed" } =>
            /\ unacked[w] = NoMsg
            /\ wbatch[w] = NoBatch

\* One worker has exited with nothing in hand after it acked a task, while
\* the other one works on a task.
C14_Witness ==
    \E w, v \in Workers :
      /\ wpc[w] = "exit0"
      /\ unacked[v] # NoMsg
      /\ \E id \in 1..Len(ackCount) : ackCount[id] > 0
      /\ tasks = << >>

\* C15: retrieve_batch polls the tasks queue at most `retries` times in one
\* call: it polls only while fewer than `retries` polls of the call were
\* empty, returns the first message it gets without acknowledging it, and
\* returns (None, None) only after `retries` empty polls in a row; the
\* worker then exits with status 0 and nothing in hand.
C15_BoundedFetch ==
    /\ [] ( \A w \in Workers :
              /\ attempts[w] <= RETRIES
              /\ wpc[w] = "fetch" => attempts[w] < RETRIES
              /\ wpc[w] = "exit0" =>
                    /\ attempts[w] = RETRIES
                    /\ WorkerExitStatus(wpc[w]) = 0
                    /\ unacked[w] = NoMsg )
    /\ [][ \A w \in Workers :
             (wpc[w] = "fetch" /\ wpc'[w] # "fetch") =>
               \/ /\ wpc'[w] = "process"
                  /\ tasks # << >>
                  /\ unacked'[w] = Head(tasks)
                  /\ wbatch'[w] = pickle_loads(Head(tasks))
                  /\ tasks' = Tail(tasks)
                  /\ ackCount' = ackCount
                  /\ nackCount' = nackCount
               \/ /\ wpc'[w] = "exit0"
                  /\ tasks = << >>
                  /\ attempts[w] = RETRIES - 1
                  /\ attempts'[w] = RETRIES ]_vars
    /\ [][ \A w \in Workers :
             (wpc[w] = "fetch" /\ attempts'[w] = attempts[w] + 1) =>
               tasks = << >> /\ tasks' = tasks ]_vars

\* Every task was fetched and acked, and every worker has then run out of
\* retries and exited.
C15_Witness ==
    /\ Len(batches) >= 2
    /\ \A id \in 1..Len(batches) : ackCount[id] = 1
    /\ \A w \in Workers : wpc[w] = "exit0" /\ attempts[w] = RETRIES

\* C16: called with num_batches = 0, retrieve_batches returns the empty list
\* at once: it does not poll the results queue, takes no message from it and
\* does not sleep.
C16_ZeroExpected ==
    numBatches = 0 =>
      /\ processed = << >>
      /\ clock = startT
      /\ Len(results) = PubTotal
      /\ \A i \in 1..Len(results) : results[i] = pickle_dumps(TestResult(i))

\* It has returned with messages waiting in the queue, untouched.
C16_Witness ==
    /\ Returned
    /\ numBatches = 0
    /\ Len(results) >= 2

Abs(x) == IF x < 0 THEN -x ELSE x

\* ceil(p / q) for p >= 0, q > 0.
Ceil(p, q) == (p + q - 1) \div q

RangesOf(s) == UNION { Indices(batches[i]) : i \in BatchesOf(s) }

\* 0 <= start < stop <= T for every batch of subsample s, and the ranges of
\* its batches are pairwise disjoint.
RangesWithin(s) ==
    /\ \A i \in BatchesOf(s) :
         /\ 0 <= batches[i].start_index
         /\ batches[i].start_index < batches[i].stop_index
         /\ batches[i].stop_index <= numEvents[s]
    /\ \A i, j \in BatchesOf(s) :
         i # j => Indices(batches[i]) \cap Indices(batches[j]) = {}

\* C17 as stated: for a source of T records and fraction f every batch has
\* 0 <= start < stop <= T, and for each subsample the ranges are pairwise
\* disjoint and their union covers [0, ceil(T * f)).
C17_Original ==
    Batched =>
      \A s \in Subsamples :
        /\ RangesWithin(s)
        /\ 0 .. (Ceil(numEvents[s] * cfgFraction[1], cfgFraction[2]) - 1)
              \subseteq RangesOf(s)

\* C17 as amended: every batch has 0 <= start < stop <= T, and for each
\* subsample the ranges are pairwise disjoint and their union is [0, N),
\* where N is the integer nearest to T * f, the even one of the two when
\* T * f lies halfway; N is ceil(T * f) or one less.
C17_CoversRounded ==
    Batched =>
      \A s \in Subsamples :
        /\ RangesWithin(s)
        /\ \E N \in 0..numEvents[s] :
             LET d == Abs(N * cfgFraction[2] - numEvents[s] * cfgFraction[1])
                 c == Ceil(numEvents[s] * cfgFraction[1], cfgFraction[2])
             IN  /\ 2 * d <= cfgFraction[2]
                 /\ 2 * d = cfgFraction[2] => N % 2 = 0
                 /\ N \in { c - 1, c }
                 /\ RangesOf(s) = 0 .. (N - 1)

\* A subsample whose batches stop one record short of ceil(T * f), and one
\* with T * f halfway between two integers.
C17_Witness ==
    /\ Batched
    /\ \E s \in Subsamples :
         /\ BatchesOf(s) # {}
         /\ RangesOf(s) = 0 .. (Ceil(numEvents[s] * cfgFraction[1], cfgFraction[2]) - 2)
    /\ \E s \in Subsamples :
         /\ 2 * ((numEvents[s] * cfgFraction[1]) % cfgFraction[2]) = cfgFraction[2]
         /\ BatchesOf(s) # {}

\* The example of four subsamples with 1000, 300, 50 and 900 entries.
ExampleSamples ==
    << [name |-> "data", list |-> <<"data_A", "data_B", "data_C", "data_D">>] >>

ExampleEvents ==
    [ s \in { "data_A", "data_B", "data_C", "data_D" } |->
        CASE s = "data_A" -> 1000
          [] s = "data_B" -> 300
          [] s = "data_C" -> 50
          [] s = "data_D" -> 900 ]

ExampleBatches == data_batcher(ExampleSamples, ExampleEvents, <<1, 1>>, 100)

ExampleCount(s) ==
    Cardinality({ i \in 1..Len(ExampleBatches) : ExampleBatches[i].subsample = s })

\* C18: for each subsample, with N = min(T, round(T * f)) and batch size B,
\* data_batcher emits ceil(N / B) batches, next to one another in its list;
\* the k-th (k = 0, 1, ...) has the range [k * B, min((k + 1) * B, N)) and
\* the fraction (stop - start) / N; with N = 0 it emits none.  Sizes 1000,
\* 300, 50 and 900 with B = 100 and f = 1 give 10, 3, 1 and 9 batches, 23 in
\* all.
C18_BatchCount ==
    /\ Batched =>
         \A s \in Subsamples :
           LET N     == Min(numEvents[s],
                            Round(numEvents[s] * cfgFraction[1], cfgFraction[2]))
               count == Ceil(N, cfgBatchSize)
           IN  /\ Cardinality(BatchesOf(s)) = count
               /\ N = 0 => BatchesOf(s) = {}
               /\ count > 0 =>
                    LET first == CHOOSE i \in BatchesOf(s) :
                                   \A j \in BatchesOf(s) : i <= j
                    IN  \A k \in 0..(count - 1) :
                          LET b == batches[first + k]
                          IN  /\ b.subsample = s
                              /\ b.start_index = k * cfgBatchSize
                              /\ b.stop_index = Min((k + 1) * cfgBatchSize, N)
                              /\ b.fraction = <<b.stop_index - b.start_index, N>>
    /\ Batched =>
         /\ Len(ExampleBatches) = 23
         /\ ExampleCount("data_A") = 10
         /\ ExampleCount("data_B") = 3
         /\ ExampleCount("data_C") = 1
         /\ ExampleCount("data_D") = 9
         /\ ExampleBatches[13].start_index = 200
         /\ ExampleBatches[13].stop_index = 300
         /\ ExampleBatches[14].stop_index = 50

\* One subsample cut into three batches or more, and one with records of
\* which the rounding leaves none.
C18_Witness ==
    /\ Batched
    /\ \E s \in Subsamples : Cardinality(BatchesOf(s)) >= 3
    /\ \E s \in Subsamples :
         /\ numEvents[s] > 0
         /\ BatchesOf(s) = {}

\* The messages that were in the queue before the first call of send_data.
PriorLen == Len(tasks) - resends * Len(batches) - (sendIdx - 1)

\* The calls of send_data that have returned.
CallsDone == resends + (IF sendIdx > Len(batches) THEN 1 ELSE 0)

\* C19: every call of send_data that has returned has appended one message
\* per batch of its list to the queue, in the order of the list, each
\* decoding to the batch it was made from (so with its id), whatever the
\* queue held and whatever earlier calls published: a second call with the
\* same list publishes all of them again.
C19_PublishesAll ==
    /\ PriorLen \in 0..1
    /\ \A c \in 1..CallsDone :
         \A i \in 1..Len(batches) :
           LET m == tasks[PriorLen + (c - 1) * Len(batches) + i]
           IN  /\ pickle_loads(m) = batches[i]
               /\ pickle_loads(m).batch_id = batches[i].batch_id
    /\ \A i \in 1..(Len(tasks) - PriorLen - CallsDone * Len(batches)) :
         /\ i = sendIdx - 1 \/ i < sendIdx - 1
         /\ pickle_loads(tasks[PriorLen + CallsDone * Len(batches) + i]) = batches[i]

\* Two calls with a list of two different batches have returned, on a queue
\* that held a message before: it now holds five.
C19_Witness ==
    /\ resends = 1
    /\ CallsDone = 2
    /\ Len(batches) = 2
    /\ batches[1].batch_id # batches[2].batch_id
    /\ PriorLen = 1
    /\ Len(tasks) = 5

\* C20: when a publish fails during the dispatch, no later batch is
\* published, the manager never starts to collect, to reconcile or to group,
\* and the run ends as failed: the manager stays dead with a non-zero exit
\* status.
C20_DispatchAborted ==
    /\ [] ( mpc = "raise_publish" =>
              /\ ExitStatus(mpc) = 1
              /\ sendIdx <= Len(batches)
              /\ MsgIds(tasks) \cup HeldIds \cup MsgIds(results) \subseteq 1..(sendIdx - 1)
              /\ \A id \in sendIdx..Len(batches) : pubCount[id] = 0
              /\ processed = << >>
              /\ missing = NoMissing
              /\ samples_data = NoData
              /\ warned = {}
              /\ clock = 0 )
    /\ [][ mpc = "raise_publish" =>
             /\ managerVars' = managerVars
             /\ collectVars' = collectVars
             /\ Len(results') >= Len(results) ]_vars
    /\ [][ (mpc = "send" /\ mpc' \notin { "send", "collect" }) =>
             /\ mpc' = "raise_publish"
             /\ tasks' = tasks
             /\ sendIdx' = sendIdx ]_vars

\* The second of three publishes failed; the one task that was dispatched
\* has been processed and its result waits in the results queue for good.
C20_Witness ==
    /\ mpc = "raise_publish"
    /\ Len(batches) = 3
    /\ sendIdx = 2
    /\ MsgIds(results) = { 1 }
    /\ \A w \in Workers : wpc[w] = "exit0"

\* C21: when the query for the number of entries fails for a subsample,
\* data_batcher fails and the run ends there with an error: no batch of any
\* subsample, also of those partitioned before the failure, exists in main()
\* or is ever published to the tasks queue.
C21_SourceFailureAborts ==
    /\ [] ( mpc = "raise_source" =>
              /\ ExitStatus(mpc) = 1
              /\ batches = << >>
              /\ sendIdx = 1
              /\ tasks = << >>
              /\ results = << >>
              /\ \A w \in Workers : unacked[w] = NoMsg /\ wbatch[w] = NoBatch
              /\ pubCount = << >>
              /\ processed = << >>
              /\ clock = 0 )
    /\ [][ mpc = "raise_source" =>
             /\ managerVars' = managerVars
             /\ collectVars' = collectVars
             /\ brokerVars' = brokerVars ]_vars

\* The query failed although every file has entries, and the workers have
\* given up waiting for tasks.
C21_Witness ==
    /\ mpc = "raise_source"
    /\ \A s \in Subsamples : numEvents[s] > 0
    /\ \A w \in Workers : wpc[w] = "exit0"

\* C22: without a connection after the bounded attempts, the manager ends
\* with a non-zero status and has neither partitioned, nor published a task,
\* nor polled for results; a worker without a connection ends with a
\* non-zero status and has taken no task, then or before.
C22_NoConnectionAborts ==
    /\ [] ( mpc = "exit_connect" =>
              /\ ExitStatus(mpc) = 1
              /\ batches = << >>
              /\ sendIdx = 1
              /\ tasks = << >>
              /\ results = << >>
              /\ processed = << >>
              /\ numBatches = 0
              /\ clock = 0 )
    /\ [] ( \A w \in Workers :
              wpc[w] \in { "connect", "exit1" } =>
                /\ wpc[w] = "exit1" => WorkerExitStatus(wpc[w]) = 1
                /\ unacked[w] = NoMsg
                /\ wbatch[w] = NoBatch
                /\ attempts[w] = 0 )
    /\ [][ \A w \in Workers :
             wpc[w] = "exit1" => wpc'[w] = "exit1" ]_vars
    /\ [][ mpc = "exit_connect" => managerVars' = managerVars ]_vars
    /\ [][ (\A w \in Workers : wpc[w] \in { "connect", "exit1" }) =>
             (unacked' = unacked /\ results' = results /\ Len(tasks') >= Len(tasks)) ]_vars

\* Neither the manager nor one of the workers could connect; the other
\* worker found no task and has exited.
C22_Witness ==
    /\ mpc = "exit_connect"
    /\ \E w, v \in Workers : wpc[w] = "exit1" /\ wpc[v] = "exit0"

\* The workers that hold a delivery of batch id.
Holders(id) == { w \in Workers : unacked[w] # NoMsg /\ unacked[w][1] = id }

CountMsg(q, id) == Cardinality({ i \in 1..Len(q) : q[i][1] = id })

\* C23 as stated: with workers polling concurrently and no crash or
\* processing failure, under every interleaving each dispatched batch is
\* handed to exactly one worker, processed exactly once and gives exactly
\* one result message (seen when the dispatch is over and every worker has
\* run to its normal exit), and no two workers hold the same delivery.
C23_Original ==
    (faults = 0 /\ Dispatched /\ \A w \in Workers : wpc[w] = "exit0") =>
      \A id \in 1..Len(batches) :
        /\ ackCount[id] = 1
        /\ pubCount[id] = 1
        /\ Cardinality(Holders(id)) <= 1

\* C23 as amended: with no crash or failure, under every interleaving each
\* dispatched batch is in exactly one place (the tasks queue, the hands of
\* one worker, or acked), so it is handed to at most one worker at a time,
\* processed at most once and gives at most one result message, and exactly
\* one once it is acked; no two workers hold the same delivery.  A batch may
\* stay in the tasks queue for good: the workers exit after `retries` empty
\* polls, which can be before the dispatch.
C23_AtMostOnce ==
    (faults = 0 /\ pubCount # << >>) =>
      \A id \in 1..Len(batches) :
        /\ CountMsg(tasks, id) + Cardinality(Holders(id)) + ackCount[id]
             = (IF id < sendIdx THEN 1 ELSE 0)
        /\ Cardinality(Holders(id)) <= 1
        /\ nackCount[id] = 0
        /\ pubCount[id]
             = ackCount[id] + Cardinality({ w \in Holders(id) : wpc[w] = "ack" })
        /\ CountMsg(results, id) + CountId(processed, id) = pubCount[id]

\* Two workers hold two different tasks at the same time, after a third
\* task was processed and acked.
C23_Witness ==
    /\ faults = 0
    /\ \E w, v \in Workers :
         /\ w # v
         /\ unacked[w] # NoMsg
         /\ unacked[v] # NoMsg
         /\ unacked[w][1] # unacked[v][1]
    /\ \E id \in 1..Len(ackCount) : ackCount[id] = 1 /\ pubCount[id] = 1

\* The results of the batches of sample g, in the order of the list.
ResultsOf(bs, g) == SelectSeq(bs, LAMBDA b : b.sample = g)

\* C24: group_batches returns an entry for every sample of config.SAMPLES;
\* the entry of sample g is the processed_data of exactly the retrieved
\* batches whose sample is g, concatenated in the order of the retrieved
\* list; no batch's data is under another sample.
C24_GroupedBySample ==
    Grouped =>
      /\ DOMAIN samples_data = SampleNames
      /\ \A g \in SampleNames :
           LET r == ResultsOf(processed, g)
           IN  /\ samples_data[g] = [ i \in 1..Len(r) |-> r[i].processed_data[1] ]
               /\ \A id \in BatchIds(processed) :
                    CountSrc(samples_data[g], id) = CountId(r, id)

\* Three batches are grouped: two of one sample with different data, in
\* between them one of the other sample.
C24_Witness ==
    /\ Grouped
    /\ Len(processed) = 3
    /\ processed[1].sample = processed[3].sample
    /\ processed[1].sample # processed[2].sample
    /\ processed[1].processed_data # processed[3].processed_data
    /\ processed[1].processed_data # processed[2].processed_data

Perms(n) == { f \in [ 1..n -> 1..n ] : \A i, j \in 1..n : f[i] = f[j] => i = j }

Permute(seq, f) == [ i \in 1..Len(seq) |-> seq[f[i]] ]

BagOf(seq) ==
    [ x \in { seq[i] : i \in 1..Len(seq) } |->
        Cardinality({ i \in 1..Len(seq) : seq[i] = x }) ]

\* C25: the grouping does not depend on the order of the retrieved list: for
\* every permutation of it each sample's entry holds the same multiset of
\* results, and the run ends the same way (the same exit, the same warnings,
\* the same samples without any batch).
C25_OrderIndependent ==
    Aggregating =>
      \A f \in Perms(Len(processed)) :
        LET P == Permute(processed, f)
            d == group_batches(P, SAMPLES)
        IN  /\ NoBatchSamples(P, SAMPLES) = NoBatchSamples(processed, SAMPLES)
            /\ Grouped =>
                  \A g \in SampleNames : BagOf(d[g]) = BagOf(samples_data[g])
            /\ mpc \in { "done", "exit_nodata" } =>
                  ValidateFrom(SAMPLES, d, 1, {}) = [pc |-> mpc, warned |-> warned]

\* A run that ended with a warning, on a list whose first two batches are of
\* the same sample and hold different data.
C25_Witness ==
    /\ mpc = "done"
    /\ warned # {}
    /\ Len(processed) = 3
    /\ processed[1].sample = processed[2].sample
    /\ processed[1].processed_data # processed[2].processed_data

\* What a batch is created with: everything but its processed_data.
Core(b) == [ b EXCEPT !.processed_data = None ]

\* Every copy of a batch outside the manager's list: the messages of both
\* queues and the unacknowledged deliveries, decoded; the batches in the
\* workers' hands; the batches the manager retrieved.
Copies ==
    { pickle_loads(tasks[i]) : i \in 1..Len(tasks) }
    \cup { pickle_loads(results[i]) : i \in 1..Len(results) }
    \cup { pickle_loads(unacked[w]) : w \in { v \in Workers : unacked[v] # NoMsg } }
    \cup { wbatch[w] : w \in { v \in Workers : wbatch[v] # NoBatch } }
    \cup { processed[i] : i \in 1..Len(processed) }

\* C26: the ids that data_batcher gives out are pairwise distinct over all
\* samples and subsamples, and a batch's id, sample, subsample and range (and
\* its type, path and fraction) never change once it is created: not in the
\* manager's list, and every copy in a queue, in a worker's hands or
\* retrieved by the manager carries the values of the batch of its id.
C26_IdentityFixed ==
    /\ [] ( /\ \A i, j \in 1..Len(batches) :
                 batches[i].batch_id = batches[j].batch_id => i = j
            /\ \A c \in Copies :
                 \E i \in 1..Len(batches) :
                   /\ batches[i].batch_id = c.batch_id
                   /\ Core(c) = Core(batches[i]) )
    /\ [][ \A i \in 1..Len(batches) :
             /\ i <= Len(batches')
             /\ Core(batches'[i]) = Core(batches[i]) ]_vars

\* Batches of two subsamples exist, one of them is retrieved as a result
\* while a task of the other is still queued or in a worker's hands.
C26_Witness ==
    /\ processed # << >>
    /\ \E c \in Copies :
         /\ c.subsample # processed[1].subsample
         /\ c.processed_data = None

\* C27: a batch's processed_data is None from its creation until
\* process_data fills it: in the manager's list, which keeps it None for the
\* whole run, in every task message and unacknowledged delivery, and in a
\* worker's hands before process_data.  It is set, to the data of that very
\* batch, in a worker's hands after process_data, in every result message
\* and in every batch the manager retrieved, and once set it is not written
\* again.
C27_ResultWrittenOnce ==
    /\ [] ( /\ \A i \in 1..Len(batches) : batches[i].processed_data = None
            /\ \A i \in 1..Len(tasks) : tasks[i][9] = None
            /\ \A w \in Workers :
                 /\ unacked[w] # NoMsg => unacked[w][9] = None
                 /\ wpc[w] = "process" => wbatch[w].processed_data = None
                 /\ wpc[w] = "ack" =>
                      /\ wbatch[w].processed_data # None
                      /\ wbatch[w].processed_data[1].src = wbatch[w].batch_id
            /\ \A i \in 1..Len(results) :
                 /\ results[i][9] # None
                 /\ results[i][9][1].src = results[i][1]
            /\ \A i \in 1..Len(processed) :
                 /\ processed[i].processed_data # None
                 /\ processed[i].processed_data[1].src = processed[i].batch_id )
    /\ [][ /\ \A w \in Workers :
               ( /\ wbatch[w] # NoBatch
                 /\ wbatch[w].processed_data # None
                 /\ wbatch'[w] # NoBatch ) => wbatch'[w] = wbatch[w]
           /\ \A i \in 1..Len(processed) :
               /\ i <= Len(processed')
               /\ processed'[i] = processed[i] ]_vars

\* One batch is seen in all its stages at once: unset in the manager's list,
\* set in the list of retrieved batches, and unset again in a task message
\* of the same id that was requeued after the result was published.
C27_Witness ==
    \E i \in 1..Len(processed) :
      /\ batches[processed[i].batch_id].processed_data = None
      /\ processed[i].processed_data # None
      /\ \E k \in 1..Len(tasks) : tasks[k][1] = processed[i].batch_id
      /\ \E w \in Workers : wpc[w] = "ack"

\* The batches and the messages of a state.
AllBatches ==
    { batches[i] : i \in 1..Len(batches) }
    \cup { processed[i] : i \in 1..Len(processed) }
    \cup { wbatch[w] : w \in { v \in Workers : wbatch[v] # NoBatch } }

AllMessages ==
    { tasks[i] : i \in 1..Len(tasks) }
    \cup { results[i] : i \in 1..Len(results) }
    \cup { unacked[w] : w \in { v \in Workers : unacked[v] # NoMsg } }

Attempts == { i \in 1..Len(conn.trace) : conn.trace[i] \in { "ok", "refused" } }

Refusals == { i \in 1..Len(conn.trace) : conn.trace[i] = "refused" }

Sleeps == { i \in 1..Len(conn.trace) : conn.trace[i] = "sleep" }

\* C29: open_connection makes at most `retries` connection attempts; it
\* returns the connection of the first attempt that succeeds, and makes no
\* attempt after it; it returns None exactly when `retries` attempts were
\* refused, and without any attempt when retries <= 0; it sleeps wait_time
\* after every refused attempt that another attempt follows, and only there:
\* never before the first attempt and never after the last refusal.
C29_BoundedRetries ==
    LET t == conn.trace
        returned == conn.pc = "return"
        budget == IF conn.retries > 0 THEN conn.retries ELSE 0
    IN  /\ Cardinality(Attempts) <= budget
        /\ Cardinality(Attempts) = conn.attempts + (IF "ok" \in { t[i] : i \in 1..Len(t) } THEN 1 ELSE 0)
        /\ \A i \in 1..Len(t) :
             t[i] = "ok" => i = Len(t) /\ returned /\ conn.connection = Connection
        /\ returned =>
             /\ conn.connection = Connection <=> (t # << >> /\ t[Len(t)] = "ok")
             /\ conn.connection = None <=> Cardinality(Refusals) = budget
             /\ conn.retries <= 0 => t = << >> /\ conn.connection = None
        /\ \A i \in Sleeps :
             /\ i > 1
             /\ t[i - 1] = "refused"
             /\ i < Len(t) => i + 1 \in Attempts
             /\ returned => i < Len(t)
        /\ \A i \in Refusals : i < Len(t) => i + 1 \in Sleeps
        /\ conn.slept = conn.wait_time * Cardinality(Sleeps)

\* Every attempt of a call with several retries and a positive wait time
\* was refused, and None was returned.
C29_Witness ==
    /\ conn.pc = "return"
    /\ conn.connection = None
    /\ conn.retries >= 3
    /\ Cardinality(Refusals) = conn.retries
    /\ conn.slept = conn.wait_time * (conn.retries - 1)
    /\ conn.wait_time > 0

\* C30: when retrieve_batches returns an empty list the manager ends with
\* the zero-results error and exit status 1, before missing_batches and
\* group_batches run: the check comes before the 50% check, which is only
\* reached with a non-empty list, and it also fires when data_batcher made
\* no batch at all.
C30_NoResultsAborts ==
    /\ [] ( /\ mpc = "exit_noresults" =>
                 /\ processed = << >>
                 /\ ExitStatus(mpc) = 1
                 /\ missing = NoMissing
                 /\ samples_data = NoData
                 /\ warned = {}
            /\ (mpc = "reconcile" \/ PastReconcile) => processed # << >> )
    /\ [][ /\ (mpc = "check" /\ mpc' # mpc) =>
               /\ processed = << >> => mpc' = "exit_noresults"
               /\ processed # << >> => mpc' = "reconcile"
               /\ missing' = missing
               /\ samples_data' = samples_data
           /\ (mpc' = "exit_noresults" /\ mpc # mpc') => mpc = "check"
           /\ (mpc' = "exit_missing" /\ mpc # mpc') =>
               mpc = "reconcile" /\ processed # << >>
           /\ mpc = "exit_noresults" => managerVars' = managerVars ]_vars

\* The zero-results exit of a run in which data_batcher made no batch.
C30_Witness ==
    /\ mpc = "exit_noresults"
    /\ batches = << >>
    /\ numBatches = 0

\* C31: in every execution, with a worker that crashes after it published
\* its result and before the ack, or whose ack fails so that the task is
\* nacked and requeued, the list that retrieve_batches returns holds no two
\* batches of the same id, and no batch is counted twice in the grouped
\* data.
C31_NoDuplicateIds ==
    /\ Returned =>
         \A id \in BatchIds(processed) : CountId(processed, id) = 1
    /\ Grouped =>
         \A id \in BatchIds(processed) :
           CountSrc(samples_data[batches[id].sample], id) = 1

\* C32: retrieve_batches never takes more than num_batches messages from
\* the results queue: its list has at most num_batches entries at every
\* point, every entry is one message taken, a poll takes at most one
\* message, and once the list has num_batches entries no message leaves the
\* queue and the list stays as it is.
C32_AtMostExpected ==
    /\ [] ( /\ Len(processed) <= numBatches
            /\ Len(processed) + Len(results) = PubTotal )
    /\ [][ /\ Len(processed') \in { Len(processed), Len(processed) + 1 }
           /\ SubSeq(processed', 1, Len(processed)) = processed
           /\ Len(processed) = numBatches =>
               /\ processed' = processed
               /\ Len(results') >= Len(results)
               /\ SubSeq(results', 1, Len(results)) = results ]_vars

\* The list is full and has been returned while a further message, which
\* was published before the last poll, is left in the queue.
C32_Witness ==
    /\ mpc = "check"
    /\ numBatches > 0
    /\ Len(processed) = numBatches
    /\ results # << >>
    /\ envLastPub < clock

\* The inputs give every sample at least one event that passes the cuts.
EveryGroupNonEmpty ==
    \A i \in 1..Len(SAMPLES) :
      \E j \in 1..Len(SAMPLES[i].list) :
        /\ numEvents[SAMPLES[i].list[j]] > 0
        /\ validEvents[SAMPLES[i].list[j]] > 0

\* The connection, the source files and the dispatch do not fail; the
\* workers that run have published a result of every batch by the time
\* retrieve_batches starts, which is in time for its polls.
HappyPath ==
    /\ [] ( mpc \notin { "exit_connect", "raise_source", "raise_publish" } )
    /\ [] ( mpc = "collect" =>
              \A id \in 1..Len(batches) : pubCount[id] >= 1 )
    /\ [] EveryGroupNonEmpty

Completed ==
    /\ mpc = "done"
    /\ BatchIds(processed) = BatchIds(batches)
    /\ missing = NoMissing
    /\ ExitStatus(mpc) = 0

\* C33: under fairness, when the connection succeeds, every source file is
\* reachable, workers keep running, every batch is processed with success
\* in the end and all results are published in time, and every sample has
\* events, the manager retrieves every dispatched id, missing_batches
\* returns None and the run ends with exit status 0.
C33_HappyPathCompletes == HappyPath => <>Completed

\* The same with no failure at all between a publish and its ack.
C33_NoFault == (HappyPath /\ [] (faults = 0)) => <>Completed

\* C34: under weak fairness, with processing failures that happen finitely
\* often, every worker that has its connection and is not killed ends: it
\* leaves its loop only with the tasks queue empty, after `retries` empty
\* polls in a row and with no delivery in hand, and its exit status is 0.
C34_WorkerTerminates ==
    /\ \A w \in Workers :
         ([] (wpc[w] # "crashed")) => ((wpc[w] = "fetch") ~> (wpc[w] = "exit0"))
    /\ [] ( \A w \in Workers :
              wpc[w] = "exit0" =>
                /\ WorkerExitStatus(wpc[w]) = 0
                /\ unacked[w] = NoMsg
                /\ wbatch[w] = NoBatch )
    /\ [][ \A w \in Workers :
             (wpc[w] # "exit0" /\ wpc'[w] = "exit0") =>
               /\ wpc[w] = "fetch"
               /\ tasks = << >>
               /\ attempts'[w] = RETRIES ]_vars
    /\ [][ \A w \in Workers : wpc[w] = "exit0" => wpc'[w] = "exit0" ]_vars

\* A worker has left with status 0 after a run in which the processing of
\* a batch failed, the batch was requeued and then processed and acked.
C34_Witness ==
    \E w \in Workers :
      /\ wpc[w] = "exit0"
      /\ attempts[w] = RETRIES
      /\ \E id \in procFailed : ackCount[id] = 1

=============================================================================
